---- MODULE Spec2Model ----
(***************************************************************************)
(* lexflation: the browser renderer docs/js/visualization.js (dataset      *)
(* load, common scales, brut/net display mode, chart cards, tooltip) and   *)
(* the paginated collection loops of PLAN.md, as state machines, with the  *)
(* monthly Aggregator of the specification, which has no source file.      *)
(*                                                                         *)
(* Time stamps and line counts are small naturals.  A scale output is the  *)
(* exact rational <<numerator, denominator>> of d3's linear interpolation. *)
(***************************************************************************)
EXTENDS Integers, Sequences, FiniteSets, TLC

VARIABLES
    server,       \* what fetch('data/codes_data.json') will deliver
    pc,           \* position of the async init(): "fetch", "json", "done", "failed"
    globalData,   \* let globalData
    displayMode,  \* let displayMode
    loading,      \* #loading style.display
    errorEl,      \* #error style.display
    statsEl,      \* #stats: display and the texts displayStats writes
    controls,     \* #controls style.display
    chartsShown,  \* #charts-container style.display
    container,    \* #charts-container children: the chart cards, in order
    button,       \* #toggle-mode textContent and title
    legend,       \* #legend-add / #legend-del textContent
    tooltip,      \* #tooltip: display and innerHTML
    toggles,      \* history: number of toggleMode calls so far
    lastCall,     \* history: one observed call of a chart function
    source,       \* the paginated API: what each page of each endpoint returns
    page,         \* fetch loops: local page
    all_items,    \* fetch loops: local all_repos / all_commits
    requested,    \* history: the page numbers requested so far
    fpc,          \* fetch loops: "loop", "returned"
    seriesList,   \* aggregator: the Series of the Dataset it is given
    cursor,       \* aggregator: <<series index, commit index>> of the next record
    sums,         \* aggregator: additions / deletions accumulated per bucket key
    buckets,      \* aggregator: the AggregatedBuckets emitted
    apc           \* aggregator: "idle", "accumulate", "emitted"

vizVars == <<server, pc, globalData, displayMode, loading, errorEl, statsEl,
             controls, chartsShown, container, button, legend, tooltip,
             toggles, lastCall>>
fetchVars == <<source, page, all_items, requested, fpc>>
aggVars == <<seriesList, cursor, sums, buckets, apc>>
vars == <<vizVars, fetchVars, aggVars>>

-----------------------------------------------------------------------------
(* Bounds of the model *)

MaxCodes == 2
MaxToggles == 2
MaxPages == 2

-----------------------------------------------------------------------------
(* Program constants *)

CHART_WIDTH == 280
CHART_HEIGHT == 180
MARGIN == [top |-> 10, right |-> 10, bottom |-> 30, left |-> 40]

Modes == {"brut", "net"}

-----------------------------------------------------------------------------
(* Helpers *)

Max(a, b) == IF a >= b THEN a ELSE b
Min(a, b) == IF a <= b THEN a ELSE b

RECURSIVE SeqsUpTo(_, _)
SeqsUpTo(S, n) ==
    IF n = 0 THEN {<<>>}
    ELSE LET shorter == SeqsUpTo(S, n - 1)
         IN  shorter \cup {Append(s, x) : s \in {t \in shorter : Len(t) = n - 1}, x \in S}

Range(s) == {s[i] : i \in DOMAIN s}

MaxOver(S) == IF S = {} THEN 0 ELSE CHOOSE m \in S : \A x \in S : x <= m

MinOver(S) == IF S = {} THEN 0 ELSE CHOOSE m \in S : \A x \in S : m <= x

-----------------------------------------------------------------------------
(* The dataset document data/codes_data.json *)

\* <<ts, add, del>> of the commits of a series, in stored order
StatsPool ==
    { <<>>,                              \* a code without any commit
      << <<1, 0, 0>> >>,                 \* only a no-op commit
      << <<2, 3, 1>>, <<0, 1, 3>> >>,    \* stored out of time order
      << <<1, 2, 2>> >> }                \* additions equal deletions

\* <<max_additions, max_deletions>> of the metadata: both zero, one above the
\* other, and bounding every commit of StatsPool
Maxima == {<<0, 0>>, <<3, 1>>, <<1, 3>>, <<3, 3>>}

MkCommit(i, j, st) ==
    [sha |-> <<i, j>>, ts |-> st[1], msg |-> <<"msg", i, j>>,
     add |-> st[2], del |-> st[3], url |-> <<"url", i, j>>]

\* series: [hasCommits, stats]; a series without hasCommits is an entry of
\* codes that lacks the commits array
MkCode(i, series) ==
    [name |-> <<"Code", i>>, slug |-> i, repo_url |-> <<"repo", i>>,
     total_commits |-> Len(series.stats),
     hasCommits |-> series.hasCommits,
     commits |-> [j \in 1..Len(series.stats) |-> MkCommit(i, j, series.stats[j])]]

SeriesPool == {[hasCommits |-> TRUE, stats |-> st] : st \in StatsPool}

NoCommits == [hasCommits |-> FALSE, stats |-> <<>>]

\* well-formed lists of codes, and lists with one entry that lacks its commits
SeriesLists ==
    SeqsUpTo(SeriesPool, MaxCodes)
        \cup UNION {{SubSeq(ss, 1, p) \o <<NoCommits>> \o SubSeq(ss, p + 1, Len(ss)) :
                        p \in 0..Len(ss)} : ss \in SeqsUpTo(SeriesPool, MaxCodes - 1)}

CodeLists == {[i \in 1..Len(ss) |-> MkCode(i, ss[i])] : ss \in SeriesLists}

RECURSIVE SumCommits(_)
SumCommits(codes) ==
    IF codes = <<>> THEN 0
    ELSE Len(Head(codes).commits) + SumCommits(Tail(codes))

MkMetadata(codes, ma, md) ==
    [generated_at |-> 2, earliest_commit |-> 0, latest_commit |-> 2,
     total_codes |-> Len(codes), total_commits |-> SumCommits(codes),
     max_additions |-> ma, max_deletions |-> md]

NoMetadata == MkMetadata(<<>>, 0, 0)

Documents ==
    {[hasMetadata |-> TRUE, hasCodes |-> TRUE,
      metadata |-> MkMetadata(cs, m[1], m[2]), codes |-> cs] :
        cs \in CodeLists, m \in Maxima}
    \cup {[hasMetadata |-> FALSE, hasCodes |-> TRUE,
           metadata |-> NoMetadata, codes |-> cs] :
            cs \in {c \in CodeLists : Len(c) <= 1}}
    \cup {[hasMetadata |-> TRUE, hasCodes |-> FALSE,
           metadata |-> MkMetadata(<<>>, m[1], m[2]), codes |-> <<>>] : m \in Maxima}

\* globalData = null: no document has neither metadata nor codes
NullData == [hasMetadata |-> FALSE, hasCodes |-> FALSE,
             metadata |-> NoMetadata, codes |-> <<>>]

\* fetch rejects | response.ok is false | response.json() rejects | a document
Servers ==
    {[kind |-> k, doc |-> NullData] : k \in {"reject", "http_error", "invalid_json"}}
        \cup {[kind |-> "json", doc |-> d] : d \in Documents}

-----------------------------------------------------------------------------
(* d3 scales *)

\* d3.scaleLinear / d3.scaleTime without clamping: range[0] + t * (range[1] -
\* range[0]) with t = (v - domain[0]) / (domain[1] - domain[0]), and t = 1/2
\* when the domain has zero width (d3's normalize)
ScaleApply(scale, v) ==
    LET d0 == scale.domain[1]
        d1 == scale.domain[2]
        r0 == scale.range[1]
        r1 == scale.range[2]
    IN  IF d1 - d0 = 0
        THEN <<r0 + r1, 2>>
        ELSE <<r0 * (d1 - d0) + (v - d0) * (r1 - r0), d1 - d0>>

\* the magnitude domain without its negative half: .domain([0, maxValue])
createScalesPositiveOnly(gMode, metadata) ==
    LET maxValue == Max(metadata.max_additions, metadata.max_deletions)
    IN  [xScale |-> [domain |-> <<metadata.earliest_commit, metadata.latest_commit>>,
                     range |-> <<MARGIN.left, CHART_WIDTH - MARGIN.right>>],
         yScale |-> [domain |-> <<0, maxValue>>,
                     range |-> <<CHART_HEIGHT - MARGIN.bottom, MARGIN.top>>]]

\* gMode, here and below: the value of the global displayMode that the function
\* reads when it is called
createScales(gMode, metadata) ==
    LET xScale == [domain |-> <<metadata.earliest_commit, metadata.latest_commit>>,
                   range |-> <<MARGIN.left, CHART_WIDTH - MARGIN.right>>]
        maxValue == Max(metadata.max_additions, metadata.max_deletions)
        maxNet == Max(metadata.max_additions, metadata.max_deletions)
        yScale == IF gMode = "brut"
                  THEN [domain |-> <<-maxValue, maxValue>>,
                        range |-> <<CHART_HEIGHT - MARGIN.bottom, MARGIN.top>>]
                  ELSE [domain |-> <<-maxNet, maxNet>>,
                        range |-> <<CHART_HEIGHT - MARGIN.bottom, MARGIN.top>>]
    IN  [xScale |-> xScale, yScale |-> yScale]

-----------------------------------------------------------------------------
(* Chart functions *)

\* the balance taken the wrong way round: del - add
WithNetSwapped(c) ==
    [f \in DOMAIN c \cup {"net"} |-> IF f = "net" THEN c.del - c.add ELSE c[f]]

\* { ...c, net: c.add - c.del }
WithNet(c) ==
    [f \in DOMAIN c \cup {"net"} |-> IF f = "net" THEN c.add - c.del ELSE c[f]]

\* net written into the stored objects: commits.forEach(c => c.net = ..)
transformCommitDataInPlace(gMode, commits) ==
    IF gMode = "net"
    THEN LET written == [i \in DOMAIN commits |->
                          [f \in DOMAIN commits[i] \cup {"net"} |->
                             IF f = "net" THEN commits[i].add - commits[i].del
                             ELSE commits[i][f]]]
         IN  [ret |-> written, arg |-> written]
    ELSE [ret |-> commits, arg |-> commits]

\* ret: the returned array; arg: the argument array as the call leaves it
\* (map and the spread build new objects, the argument is not written)
transformCommitData(gMode, commits) ==
    IF gMode = "net"
    THEN [ret |-> [i \in DOMAIN commits |-> WithNet(commits[i])], arg |-> commits]
    ELSE [ret |-> commits, arg |-> commits]

\* c.net of an object that may lack the property
NetOf(c) ==
    IF "net" \in DOMAIN c THEN [defined |-> TRUE, value |-> c.net]
    ELSE [defined |-> FALSE, value |-> 0]

\* yScale(undefined) is NaN
ScaleApplyNet(scale, n) ==
    IF n.defined THEN ScaleApply(scale, n.value) ELSE <<0, 0>>

\* cx taken from the position in the array: .attr('cx', (d, i) => xScale(i))
addInteractivePointsByIndex(commits, code, xScale, yScale, mode) ==
    [i \in DOMAIN commits |->
        LET d == commits[i]
        IN  [datum |-> d,
             code |-> code.slug,
             r |-> 3,
             fill |-> "transparent",
             cx |-> ScaleApply(xScale, i - 1),
             cy |-> IF mode = "brut"
                    THEN ScaleApply(yScale, IF d.add > d.del THEN d.add ELSE -d.del)
                    ELSE ScaleApply(yScale, IF "net" \in DOMAIN d THEN d.net ELSE 0)]]

\* the tie given to the additions: d.add >= d.del ? d.add : -d.del
addInteractivePointsTieToAdditions(commits, code, xScale, yScale, mode) ==
    [i \in DOMAIN commits |->
        LET d == commits[i]
        IN  [datum |-> d,
             code |-> code.slug,
             r |-> 3,
             fill |-> "transparent",
             cx |-> ScaleApply(xScale, d.ts),
             cy |-> IF mode = "brut"
                    THEN ScaleApply(yScale, IF d.add >= d.del THEN d.add ELSE -d.del)
                    ELSE ScaleApply(yScale, IF "net" \in DOMAIN d THEN d.net ELSE 0)]]

addInteractivePoints(commits, code, xScale, yScale, mode) ==
    [i \in DOMAIN commits |->
        LET d == commits[i]
        IN  [datum |-> d,
             code |-> code.slug,
             r |-> 3,
             fill |-> "transparent",
             cx |-> ScaleApply(xScale, d.ts),
             cy |-> IF mode = "brut"
                    THEN ScaleApply(yScale, IF d.add > d.del THEN d.add ELSE -d.del)
                    ELSE ScaleApplyNet(yScale, NetOf(d))]]

\* d3.area().x(..).y0(yScale(0)).y1(..) over data: one vertex per datum
Area(data, xScale, yScale) ==
    [i \in DOMAIN data |->
        [x |-> ScaleApply(xScale, data[i].date),
         y0 |-> ScaleApply(yScale, 0),
         y1 |-> ScaleApplyNet(yScale, data[i].value)]]

Defined(v) == [defined |-> TRUE, value |-> v]

renderBrutMode(commits, code, xScale, yScale) ==
    LET additionsData == [i \in DOMAIN commits |->
                            [date |-> commits[i].ts, value |-> Defined(commits[i].add)]]
        deletionsData == [i \in DOMAIN commits |->
                            [date |-> commits[i].ts, value |-> Defined(-commits[i].del)]]
    IN  [paths |-> <<[fill |-> "#2ea043", d |-> Area(additionsData, xScale, yScale)],
                     [fill |-> "#cf222e", d |-> Area(deletionsData, xScale, yScale)]>>,
         points |-> addInteractivePoints(commits, code, xScale, yScale, "brut")]

\* Math.max(0, undefined) and Math.min(0, undefined) are NaN
ClampLow(n) == IF n.defined THEN Defined(Max(0, n.value)) ELSE n
ClampHigh(n) == IF n.defined THEN Defined(Min(0, n.value)) ELSE n

renderNetMode(commits, code, xScale, yScale) ==
    LET netData == [i \in DOMAIN commits |->
                      [date |-> commits[i].ts, value |-> NetOf(commits[i])]]
        positiveData == [i \in DOMAIN netData |->
                           [date |-> netData[i].date, value |-> ClampLow(netData[i].value)]]
        negativeData == [i \in DOMAIN netData |->
                           [date |-> netData[i].date, value |-> ClampHigh(netData[i].value)]]
    IN  [paths |-> <<[fill |-> "#2ea043", d |-> Area(positiveData, xScale, yScale)],
                     [fill |-> "#cf222e", d |-> Area(negativeData, xScale, yScale)]>>,
         points |-> addInteractivePoints(commits, code, xScale, yScale, "net")]

\* the axes carry the scales' domains; the zero line sits at yScale(0)
addAxes(xScale, yScale) ==
    [x |-> xScale.domain, y |-> yScale.domain,
     zeroLine |-> [x1 |-> MARGIN.left, x2 |-> CHART_WIDTH - MARGIN.right,
                   y |-> ScaleApply(yScale, 0)]]

\* svg: the chart; commits: code.commits as the call leaves it
createChart(gMode, code, xScale, yScale) ==
    LET t == transformCommitData(gMode, code.commits)
        commits == t.ret
        body == IF gMode = "brut"
                THEN renderBrutMode(commits, code, xScale, yScale)
                ELSE renderNetMode(commits, code, xScale, yScale)
    IN  [svg |-> [mode |-> gMode, paths |-> body.paths, points |-> body.points,
                  axes |-> addAxes(xScale, yScale)],
         commits |-> t.arg]

\* the card: title, subtitle and the svg of the chart
CardOf(code, chart) ==
    [card |-> [title |-> code.name,
               subtitle |-> <<code.total_commits,
                              IF code.total_commits > 1 THEN "modifications"
                              ELSE "modification">>,
               slug |-> code.slug,
               svg |-> chart.svg],
     commits |-> chart.commits]

\* a time scale per code, over the code's own commits
createChartCardOwnTimeScale(gMode, code, xScale, yScale) ==
    LET ts == {code.commits[j].ts : j \in DOMAIN code.commits}
        own == IF ts = {} THEN xScale
               ELSE [xScale EXCEPT !.domain = <<MinOver(ts), MaxOver(ts)>>]
    IN  CardOf(code, createChart(gMode, code, own, yScale))

\* a magnitude scale per code, over the code's own commits, floored at 1
createChartCardOwnMagnitude(gMode, code, xScale, yScale) ==
    LET vs == {code.commits[j].add : j \in DOMAIN code.commits}
                \cup {code.commits[j].del : j \in DOMAIN code.commits} \cup {1}
        own == [yScale EXCEPT !.domain = <<-MaxOver(vs), MaxOver(vs)>>]
    IN  CardOf(code, createChart(gMode, code, xScale, own))

createChartCard(gMode, code, xScale, yScale) ==
    CardOf(code, createChart(gMode, code, xScale, yScale))

\* forEach without the test of code.commits.length
RECURSIVE forEachCodeNoSkip(_, _, _, _, _)
forEachCodeNoSkip(gMode, codes, i, scales, acc) ==
    IF i > Len(codes) THEN acc
    ELSE LET code == codes[i]
         IN  IF ~code.hasCommits
             THEN [acc EXCEPT !.threw = TRUE]
             ELSE LET chart == [svg |-> [mode |-> gMode, paths |-> <<>>, points |-> <<>>,
                                         axes |-> addAxes(scales.xScale, scales.yScale)],
                                commits |-> code.commits]
                      made == IF Len(code.commits) = 0 THEN CardOf(code, chart)
                              ELSE CardOf(code, createChart(gMode, code, scales.xScale,
                                                            scales.yScale))
                  IN  forEachCodeNoSkip(gMode, codes, i + 1, scales,
                        [acc EXCEPT !.container = Append(@, made.card),
                                    !.codes[i].commits = made.commits])

\* the card put before the others: container.prepend(card)
RECURSIVE forEachCodePrepending(_, _, _, _, _)
forEachCodePrepending(gMode, codes, i, scales, acc) ==
    IF i > Len(codes) THEN acc
    ELSE LET code == codes[i]
         IN  IF ~code.hasCommits
             THEN [acc EXCEPT !.threw = TRUE]
             ELSE IF Len(code.commits) = 0
             THEN forEachCodePrepending(gMode, codes, i + 1, scales, acc)
             ELSE LET made == createChartCard(gMode, code, scales.xScale, scales.yScale)
                  IN  forEachCodePrepending(gMode, codes, i + 1, scales,
                        [acc EXCEPT !.container = <<made.card>> \o @,
                                    !.codes[i].commits = made.commits])

\* data.codes.forEach from entry i on.  acc: the container's cards, the codes
\* as the calls leave them, and whether an entry threw (code.commits.length
\* of an entry without commits), which ends the loop
RECURSIVE forEachCode(_, _, _, _, _)
forEachCode(gMode, codes, i, scales, acc) ==
    IF i > Len(codes) THEN acc
    ELSE LET code == codes[i]
         IN  IF ~code.hasCommits
             THEN [acc EXCEPT !.threw = TRUE]
             ELSE IF Len(code.commits) = 0
             THEN forEachCode(gMode, codes, i + 1, scales, acc)
             ELSE LET made == createChartCard(gMode, code, scales.xScale, scales.yScale)
                  IN  forEachCode(gMode, codes, i + 1, scales,
                        [acc EXCEPT !.container = Append(@, made.card),
                                    !.codes[i].commits = made.commits])

\* without container.innerHTML = '': the cards are appended after those the
\* container already holds
renderAllChartsAppending(gMode, data) ==
    LET kept == [container |-> container, codes |-> data.codes, threw |-> FALSE]
    IN  IF ~data.hasMetadata \/ ~data.hasCodes
        THEN [kept EXCEPT !.threw = TRUE]
        ELSE forEachCode(gMode, data.codes, 1, createScales(gMode, data.metadata), kept)

\* container: the cards after the call; codes: data.codes after the call;
\* threw: a TypeError left the function (metadata or codes undefined, or an
\* entry without commits)
renderAllCharts(gMode, data) ==
    LET emptied == [container |-> <<>>, codes |-> data.codes, threw |-> FALSE]
    IN  IF ~data.hasMetadata \/ ~data.hasCodes
        THEN [emptied EXCEPT !.threw = TRUE]
        ELSE forEachCode(gMode, data.codes, 1, createScales(gMode, data.metadata), emptied)

\* the texts and display of #stats
displayStats(metadata) ==
    [display |-> "grid",
     total_codes |-> metadata.total_codes,
     total_commits |-> <<"fr-FR", metadata.total_commits>>,
     date_range |-> <<metadata.earliest_commit, metadata.latest_commit>>,
     last_update |-> <<"fr-FR", metadata.generated_at>>]

\* the content rebuilt only when the tooltip is hidden: a tooltip left
\* displayed keeps what it showed
showTooltipKeepsShown(gMode, commit, code) ==
    IF tooltip.display = "block" THEN tooltip
    ELSE LET net == NetOf(commit)
             nonneg == net.defined /\ net.value >= 0
         IN  [display |-> "block",
              title |-> commit.msg,
              date |-> <<"fr-FR", commit.ts>>,
              stats |-> IF gMode = "brut"
                        THEN [kind |-> "brut", add |-> commit.add, del |-> commit.del]
                        ELSE [kind |-> "net", net |-> net,
                              sign |-> IF nonneg THEN "+" ELSE "",
                              color |-> IF nonneg THEN "tooltip-add" ELSE "tooltip-del"],
              commitUrl |-> commit.url,
              codeUrl |-> <<"https://git.tricoteuses.fr/codes/", code, "/src/commit/",
                            commit.sha>>]

\* tooltip.innerHTML and display (the position follows the mouse event)
showTooltip(gMode, commit, code) ==
    LET net == NetOf(commit)
        nonneg == net.defined /\ net.value >= 0
        stats == IF gMode = "brut"
                 THEN [kind |-> "brut", add |-> commit.add, del |-> commit.del]
                 ELSE [kind |-> "net", net |-> net,
                       sign |-> IF nonneg THEN "+" ELSE "",
                       color |-> IF nonneg THEN "tooltip-add" ELSE "tooltip-del"]
    IN  [display |-> "block",
         title |-> commit.msg,
         date |-> <<"fr-FR", commit.ts>>,
         stats |-> stats,
         commitUrl |-> commit.url,
         codeUrl |-> <<"https://git.tricoteuses.fr/codes/", code, "/src/commit/", commit.sha>>]

-----------------------------------------------------------------------------
(* State of the page before DOMContentLoaded *)

Loaded(data) == data # NullData

NoCall == [fn |-> "none", args |-> <<>>, mode |-> "brut", result |-> <<>>]

\* the markup of index.html, before any script writes to it
Markup == "index.html"

VizInit ==
    /\ server \in Servers
    /\ pc = "fetch"
    /\ globalData = NullData
    /\ displayMode = "brut"
    /\ loading = Markup
    /\ errorEl = Markup
    /\ statsEl = [display |-> Markup]
    /\ controls = Markup
    /\ chartsShown = Markup
    /\ container = <<>>
    /\ button = [text |-> Markup, title |-> Markup]
    /\ legend = [add |-> Markup, del |-> Markup]
    /\ tooltip = [display |-> Markup]
    /\ toggles = 0
    /\ lastCall = NoCall

-----------------------------------------------------------------------------
(* History: the calls of the chart functions *)

Call(gMode, fn, args, result) ==
    [fn |-> fn, args |-> args, mode |-> gMode, result |-> result]

\* the entries forEach reaches and draws
Drawn(codes) ==
    {i \in DOMAIN codes :
        /\ \A j \in 1..i : codes[j].hasCommits
        /\ Len(codes[i].commits) > 0}

\* the calls of createScales, transformCommitData and createChart that
\* return in one renderAllCharts(data)
CallsOfRender(gMode, data) ==
    IF ~data.hasMetadata THEN {}
    ELSE LET scales == createScales(gMode, data.metadata)
         IN  {Call(gMode, "createScales", data.metadata, scales)}
             \cup (IF ~data.hasCodes THEN {}
                   ELSE {Call(gMode, "transformCommitData", data.codes[i].commits,
                              transformCommitData(gMode, data.codes[i].commits).ret) :
                            i \in Drawn(data.codes)}
                        \cup
                        {Call(gMode, "createChart",
                              <<data.codes[i], scales.xScale, scales.yScale>>,
                              createChart(gMode, data.codes[i], scales.xScale, scales.yScale).svg) :
                            i \in Drawn(data.codes)})

-----------------------------------------------------------------------------
(* Actions of the page *)

\* init resumes from await fetch(..): a rejection, or a response whose ok is
\* false, is rethrown by loadData and caught by init
FetchSettles ==
    /\ pc = "fetch"
    /\ IF server.kind \in {"reject", "http_error"}
       THEN /\ loading' = "none"
            /\ errorEl' = "block"
            /\ pc' = "failed"
       ELSE /\ pc' = "json"
            /\ UNCHANGED <<loading, errorEl>>
    /\ UNCHANGED <<server, globalData, displayMode, statsEl, controls, chartsShown,
                   container, button, legend, tooltip, toggles>>

\* the mode read when init started, before its awaits, used for the render
JsonSettlesModeAtStart ==
    /\ pc = "json"
    /\ LET data == server.doc
           r == renderAllCharts("brut", data)
       IN  IF server.kind = "invalid_json"
           THEN /\ loading' = "none"
                /\ errorEl' = "block"
                /\ pc' = "failed"
                /\ UNCHANGED <<globalData, statsEl, controls, chartsShown, container>>
           ELSE IF ~data.hasMetadata
           THEN /\ globalData' = data
                /\ loading' = "none"
                /\ errorEl' = "block"
                /\ pc' = "failed"
                /\ UNCHANGED <<statsEl, controls, chartsShown, container>>
           ELSE /\ globalData' = [data EXCEPT !.codes = r.codes]
                /\ loading' = "none"
                /\ statsEl' = displayStats(data.metadata)
                /\ controls' = "flex"
                /\ chartsShown' = "grid"
                /\ container' = r.container
                /\ errorEl' = IF r.threw THEN "block" ELSE errorEl
                /\ pc' = IF r.threw THEN "failed" ELSE "done"
    /\ UNCHANGED <<server, displayMode, button, legend, tooltip, toggles>>

\* init resumes from await response.json() and runs to its end
JsonSettles ==
    /\ pc = "json"
    /\ LET data == server.doc
           r == renderAllCharts(displayMode, data)
       IN  IF server.kind = "invalid_json"
           THEN /\ loading' = "none"
                /\ errorEl' = "block"
                /\ pc' = "failed"
                /\ UNCHANGED <<globalData, statsEl, controls, chartsShown, container>>
           ELSE IF ~data.hasMetadata
           THEN /\ globalData' = data
                /\ loading' = "none"
                /\ errorEl' = "block"
                /\ pc' = "failed"
                /\ UNCHANGED <<statsEl, controls, chartsShown, container>>
           ELSE /\ globalData' = [data EXCEPT !.codes = r.codes]
                /\ loading' = "none"
                /\ statsEl' = displayStats(data.metadata)
                /\ controls' = "flex"
                /\ chartsShown' = "grid"
                /\ container' = r.container
                /\ errorEl' = IF r.threw THEN "block" ELSE errorEl
                /\ pc' = IF r.threw THEN "failed" ELSE "done"
    /\ UNCHANGED <<server, displayMode, button, legend, tooltip, toggles>>

\* the mode set to net instead of flipped: displayMode = 'net'
toggleModeOneWay ==
    /\ toggles < MaxToggles
    /\ toggles' = toggles + 1
    /\ LET flipped == "net"
           shown == flipped
           r == renderAllCharts(flipped, globalData)
       IN  /\ displayMode' = flipped
           /\ button' = [text |-> IF shown = "brut" THEN "Mode Net" ELSE "Mode Brut",
                         title |-> IF shown = "brut"
                                   THEN "Afficher le solde (net)"
                                   ELSE "Afficher les additions et deletions separement"]
           /\ legend' = IF flipped = "brut"
                        THEN [add |-> "Additions", del |-> "Deletions"]
                        ELSE [add |-> "Solde positif", del |-> "Solde negatif"]
           /\ IF Loaded(globalData)
              THEN /\ container' = r.container
                   /\ globalData' = [globalData EXCEPT !.codes = r.codes]
              ELSE UNCHANGED <<container, globalData>>
    /\ UNCHANGED <<server, pc, loading, errorEl, statsEl, controls, chartsShown, tooltip>>

\* the button text computed before the flip, from the mode being left
toggleModeButtonOfOldMode ==
    /\ toggles < MaxToggles
    /\ toggles' = toggles + 1
    /\ LET flipped == IF displayMode = "brut" THEN "net" ELSE "brut"
           shown == displayMode
           r == renderAllCharts(flipped, globalData)
       IN  /\ displayMode' = flipped
           /\ button' = [text |-> IF shown = "brut" THEN "Mode Net" ELSE "Mode Brut",
                         title |-> IF shown = "brut"
                                   THEN "Afficher le solde (net)"
                                   ELSE "Afficher les additions et deletions separement"]
           /\ legend' = IF flipped = "brut"
                        THEN [add |-> "Additions", del |-> "Deletions"]
                        ELSE [add |-> "Solde positif", del |-> "Solde negatif"]
           /\ IF Loaded(globalData)
              THEN /\ container' = r.container
                   /\ globalData' = [globalData EXCEPT !.codes = r.codes]
              ELSE UNCHANGED <<container, globalData>>
    /\ UNCHANGED <<server, pc, loading, errorEl, statsEl, controls, chartsShown, tooltip>>

toggleMode ==
    /\ toggles < MaxToggles
    /\ toggles' = toggles + 1
    /\ LET flipped == IF displayMode = "brut" THEN "net" ELSE "brut"
           r == renderAllCharts(flipped, globalData)
       IN  /\ displayMode' = flipped
           /\ button' = [text |-> IF flipped = "brut" THEN "Mode Net" ELSE "Mode Brut",
                         title |-> IF flipped = "brut"
                                   THEN "Afficher le solde (net)"
                                   ELSE "Afficher les additions et deletions separement"]
           /\ legend' = IF flipped = "brut"
                        THEN [add |-> "Additions", del |-> "Deletions"]
                        ELSE [add |-> "Solde positif", del |-> "Solde negatif"]
           /\ IF Loaded(globalData)
              THEN /\ container' = r.container
                   /\ globalData' = [globalData EXCEPT !.codes = r.codes]
              ELSE UNCHANGED <<container, globalData>>
    /\ UNCHANGED <<server, pc, loading, errorEl, statsEl, controls, chartsShown, tooltip>>

\* the cards with the point the mouse is on
Hovered ==
    {k \in DOMAIN container :
        \E i \in DOMAIN container[k].svg.points : container[k].svg.points[i].r = 4}

\* mouseenter on point i of card k
MouseEnter(k, i) ==
    /\ k \in DOMAIN container
    /\ i \in DOMAIN container[k].svg.points
    /\ Hovered = {}
    /\ LET p == container[k].svg.points[i]
       IN  /\ container' = [container EXCEPT ![k].svg.points[i].fill = "#0969da",
                                             ![k].svg.points[i].r = 4]
           /\ tooltip' = showTooltip(displayMode, p.datum, p.code)
    /\ UNCHANGED <<server, pc, globalData, displayMode, loading, errorEl, statsEl,
                   controls, chartsShown, button, legend, toggles>>

\* mouseleave on point i of card k, which the mouse is on
MouseLeave(k, i) ==
    /\ k \in DOMAIN container
    /\ i \in DOMAIN container[k].svg.points
    /\ container[k].svg.points[i].r = 4
    /\ container' = [container EXCEPT ![k].svg.points[i].fill = "transparent",
                                      ![k].svg.points[i].r = 3]
    /\ tooltip' = [tooltip EXCEPT !.display = "none"]
    /\ UNCHANGED <<server, pc, globalData, displayMode, loading, errorEl, statsEl,
                   controls, chartsShown, button, legend, toggles>>

-----------------------------------------------------------------------------
(* The paginated collection loops of fetch_codes_data.py *)

Loops == {"fetch_all_repos", "fetch_repo_commits"}

\* entry k of page p
Entry(p, k) == <<p, k>>

PageOfSize(p, n) == [k \in 1..n |-> Entry(p, k)]

\* sizes: the number of entries of pages 1..Len(sizes); every later page has
\* tail entries (tail > 0: a source that never runs out)
Sources ==
    {[sizes |-> sz, tail |-> t] : sz \in SeqsUpTo({0, 1, 2}, MaxPages), t \in {0, 1}}

\* response.json() of the request for page p
PageOf(src, p) ==
    IF p <= Len(src.sizes) THEN PageOfSize(p, src.sizes[p]) ELSE PageOfSize(p, src.tail)

\* the requests the model follows a loop for
MaxPageRequests == MaxPages + 2

FetchInit ==
    /\ source \in [Loops -> Sources]
    /\ page = [l \in Loops |-> 1]
    /\ all_items = [l \in Loops |-> <<>>]
    /\ requested = [l \in Loops |-> <<>>]
    /\ fpc = [l \in Loops |-> "loop"]

\* the increment forgotten: the same page is requested again
NextPageStuck(p) == p

\* page += 1
NextPage(p) == p + 1

\* one turn of while True: request the page, break if it is empty, else
\* extend and go on
LoopTurn(l) ==
    /\ fpc[l] = "loop"
    /\ Len(requested[l]) < MaxPageRequests
    /\ requested' = [requested EXCEPT ![l] = Append(@, page[l])]
    /\ LET items == PageOf(source[l], page[l])
       IN  IF items = <<>>
           THEN /\ fpc' = [fpc EXCEPT ![l] = "returned"]
                /\ UNCHANGED <<all_items, page>>
           ELSE /\ all_items' = [all_items EXCEPT ![l] = @ \o items]
                /\ page' = [page EXCEPT ![l] = NextPage(@)]
                /\ UNCHANGED fpc
    /\ UNCHANGED source

fetch_all_repos == LoopTurn("fetch_all_repos")

fetch_repo_commits == LoopTurn("fetch_repo_commits")

-----------------------------------------------------------------------------
(* The Aggregator (monthly-bucket mode) *)

\* CommitRecords: timestamp (its date components as written: 2020-01-15 is
\* <<2020, 1, 15>>), additions, deletions
RecordPool ==
    {[timestamp |-> <<2020, 1, 15>>, additions |-> 5, deletions |-> 1],
     [timestamp |-> <<2020, 1, 20>>, additions |-> 2, deletions |-> 0],
     [timestamp |-> <<2020, 2, 1>>, additions |-> 0, deletions |-> 4],
     [timestamp |-> <<2019, 2, 10>>, additions |-> 1, deletions |-> 1]}

\* the Series lists given to the Aggregator: orderedCommits of each Series
SeriesInputs == SeqsUpTo(SeqsUpTo(RecordPool, 2), MaxCodes)

\* dropping the year: the month alone as key
BucketKeyMonthOnly(rec) == <<0, rec.timestamp[2]>>

\* (calendar year, calendar month) of the record's own date components
BucketKey(rec) == <<rec.timestamp[1], rec.timestamp[2]>>

\* the first day of the month of a key
BucketStart(key) == <<key[1], key[2], 1>>

\* ascending order of bucketStart
Before(a, b) ==
    \/ a[1] < b[1]
    \/ a[1] = b[1] /\ a[2] < b[2]
    \/ a[1] = b[1] /\ a[2] = b[2] /\ a[3] < b[3]

\* the cursor moved to the next record, over the Series without commits
RECURSIVE Advance(_, _)
Advance(ss, c) ==
    IF c[1] > Len(ss) THEN c
    ELSE IF c[2] <= Len(ss[c[1]]) THEN c
    ELSE Advance(ss, <<c[1] + 1, 1>>)

\* the keys of a set of sums, in ascending order of bucketStart
RECURSIVE SortedKeys(_)
SortedKeys(keys) ==
    IF keys = {} THEN <<>>
    ELSE LET first == CHOOSE k \in keys :
                          \A o \in keys \ {k} : Before(BucketStart(k), BucketStart(o))
         IN  <<first>> \o SortedKeys(keys \ {first})

AggInit ==
    /\ seriesList \in SeriesInputs
    /\ cursor = Advance(seriesList, <<1, 1>>)
    /\ sums = <<>>
    /\ buckets = <<>>
    /\ apc = "accumulate"

AggIdle ==
    /\ seriesList = <<>>
    /\ cursor = <<1, 1>>
    /\ sums = <<>>
    /\ buckets = <<>>
    /\ apc = "idle"

\* one CommitRecord accumulated into the bucket of its key
Accumulate ==
    /\ apc = "accumulate"
    /\ cursor[1] <= Len(seriesList)
    /\ LET rec == seriesList[cursor[1]][cursor[2]]
           key == BucketKey(rec)
           old == IF key \in DOMAIN sums THEN sums[key]
                  ELSE [additions |-> 0, deletions |-> 0]
       IN  sums' = [k \in DOMAIN sums \cup {key} |->
                      IF k = key
                      THEN [additions |-> old.additions + rec.additions,
                            deletions |-> old.deletions + rec.deletions]
                      ELSE sums[k]]
    /\ cursor' = Advance(seriesList, <<cursor[1], cursor[2] + 1>>)
    /\ UNCHANGED <<seriesList, buckets, apc>>

\* every record accumulated: the buckets are emitted in ascending order
Emit ==
    /\ apc = "accumulate"
    /\ cursor[1] > Len(seriesList)
    /\ LET keys == SortedKeys(DOMAIN sums)
       IN  buckets' = [i \in DOMAIN keys |->
                         [bucketStart |-> BucketStart(keys[i]),
                          additions |-> sums[keys[i]].additions,
                          deletions |-> sums[keys[i]].deletions]]
    /\ apc' = "emitted"
    /\ UNCHANGED <<seriesList, cursor, sums>>

-----------------------------------------------------------------------------
(* Specifications *)

\* the page, with the collection script not running
FetchIdle ==
    /\ source = [l \in Loops |-> [sizes |-> <<>>, tail |-> 0]]
    /\ page = [l \in Loops |-> 1]
    /\ all_items = [l \in Loops |-> <<>>]
    /\ requested = [l \in Loops |-> <<>>]
    /\ fpc = [l \in Loops |-> "loop"]

Init == VizInit /\ FetchIdle /\ AggIdle

Next ==
    \/ FetchSettles /\ UNCHANGED <<lastCall, fetchVars, aggVars>>
    \/ JsonSettles /\ UNCHANGED <<lastCall, fetchVars, aggVars>>
    \/ toggleMode /\ UNCHANGED <<lastCall, fetchVars, aggVars>>
    \/ \E k \in DOMAIN container : \E i \in DOMAIN container[k].svg.points :
          MouseEnter(k, i) /\ UNCHANGED <<lastCall, fetchVars, aggVars>>
    \/ \E k \in DOMAIN container : \E i \in DOMAIN container[k].svg.points :
          MouseLeave(k, i) /\ UNCHANGED <<lastCall, fetchVars, aggVars>>

Spec == Init /\ [][Next]_vars

\* the page with an observer of the chart functions: a step leaves lastCall
\* as it is or records one of the calls that returned in it
Observe(calls) == lastCall' \in {lastCall} \cup calls

CallsOfJsonSettles ==
    IF server.kind = "json" THEN CallsOfRender(displayMode, server.doc) ELSE {}

CallsOfToggleMode ==
    IF Loaded(globalData)
    THEN CallsOfRender(IF displayMode = "brut" THEN "net" ELSE "brut", globalData)
    ELSE {}

CallsOfMouseEnter(k, i) ==
    LET p == container[k].svg.points[i]
    IN  {Call(displayMode, "showTooltip", <<p.datum, p.code>>,
              showTooltip(displayMode, p.datum, p.code))}

NextCalls ==
    \/ FetchSettles /\ UNCHANGED <<lastCall, fetchVars, aggVars>>
    \/ JsonSettles /\ Observe(CallsOfJsonSettles) /\ UNCHANGED <<fetchVars, aggVars>>
    \/ toggleMode /\ Observe(CallsOfToggleMode) /\ UNCHANGED <<fetchVars, aggVars>>
    \/ \E k \in DOMAIN container : \E i \in DOMAIN container[k].svg.points :
          MouseEnter(k, i) /\ Observe(CallsOfMouseEnter(k, i)) /\ UNCHANGED <<fetchVars, aggVars>>
    \/ \E k \in DOMAIN container : \E i \in DOMAIN container[k].svg.points :
          MouseLeave(k, i) /\ UNCHANGED <<lastCall, fetchVars, aggVars>>

\* the observer follows the documents whose metadata maxima are <<3, 1>>, and
\* the loads that fail
InitCalls ==
    /\ Init
    /\ (server.kind = "json" /\ server.doc.hasMetadata /\ server.doc.hasCodes)
          => (server.doc.metadata.max_additions = 3
                /\ server.doc.metadata.max_deletions = 1)

SpecCalls == InitCalls /\ [][NextCalls]_vars

\* the collection script, with no page open
VizIdle == VizInit /\ server = [kind |-> "reject", doc |-> NullData]

InitFetch == FetchInit /\ VizIdle /\ AggIdle

NextFetch ==
    \/ fetch_all_repos /\ UNCHANGED <<vizVars, aggVars>>
    \/ fetch_repo_commits /\ UNCHANGED <<vizVars, aggVars>>

\* the script runs its loop without pausing forever: each turn that can be
\* taken is taken
SpecFetch ==
    /\ InitFetch
    /\ [][NextFetch]_vars
    /\ WF_vars(fetch_all_repos /\ UNCHANGED <<vizVars, aggVars>>)
    /\ WF_vars(fetch_repo_commits /\ UNCHANGED <<vizVars, aggVars>>)

\* the Aggregator run on a Dataset, with no page open and no collection
InitAggregate == AggInit /\ VizIdle /\ FetchIdle

NextAggregate ==
    \/ Accumulate /\ UNCHANGED <<vizVars, fetchVars>>
    \/ Emit /\ UNCHANGED <<vizVars, fetchVars>>

SpecAggregate == InitAggregate /\ [][NextAggregate]_vars

-----------------------------------------------------------------------------
(* Properties *)

\* the stored code a card was drawn for
CodeOfCard(k) ==
    CHOOSE c \in Range(globalData.codes) : c.slug = container[k].slug

\* C1: the magnitude domain of every drawn chart is [-M, +M] with
\* M = max(1, max_additions, max_deletions) of the metadata; with both maxima
\* zero it is [-1, 1], never [0, 0].
C1_MagnitudeDomainFlooredAtOne ==
    \A k \in DOMAIN container :
        LET M == Max(1, Max(globalData.metadata.max_additions,
                            globalData.metadata.max_deletions))
        IN  container[k].svg.axes.y = <<-M, M>>

\* C2: once loaded, globalData is the document as it was delivered, whatever
\* renders and mode toggles have happened; the commits drawn in net mode are
\* copies that carry net, the stored ones never do.
C2_DatasetNeverMutated ==
    Loaded(globalData) =>
        /\ globalData = server.doc
        /\ \A c \in Range(globalData.codes) :
              \A j \in DOMAIN c.commits : "net" \notin DOMAIN c.commits[j]

C2_Witness ==
    /\ pc = "done"
    /\ toggles >= 2
    /\ container # <<>>
    /\ \E c \in Range(globalData.codes) : Len(c.commits) >= 2

\* C3: a card is in the container only for a code whose commits list is not
\* empty; when the render ran to its end, every code with commits has
\* exactly one card; the codes without commits stay in data.codes.
C3_CardIffCommits ==
    /\ \A k \in DOMAIN container :
          \E i \in DOMAIN globalData.codes :
              /\ globalData.codes[i].slug = container[k].slug
              /\ Len(globalData.codes[i].commits) > 0
    /\ pc = "done" =>
          \A i \in DOMAIN globalData.codes :
              Cardinality({k \in DOMAIN container :
                              container[k].slug = globalData.codes[i].slug})
                = IF Len(globalData.codes[i].commits) > 0 THEN 1 ELSE 0
    /\ Loaded(globalData) => globalData.codes = server.doc.codes

C3_Witness ==
    /\ pc = "done"
    /\ toggles >= 1
    /\ Len(globalData.codes) = 2
    /\ Len(globalData.codes[1].commits) = 0
    /\ Len(container) = 1
    /\ container[1].slug = globalData.codes[2].slug

\* the documents C4 calls missing or corrupt
MissingOrCorrupt ==
    \/ server.kind \in {"reject", "http_error", "invalid_json"}
    \/ ~server.doc.hasMetadata
    \/ ~server.doc.hasCodes

\* C4: when the document is missing or corrupt, init ends with the loading
\* indicator hidden, the error element shown, the charts container not shown
\* and without any card.
C4_LoadErrorState ==
    (MissingOrCorrupt /\ pc \in {"done", "failed"}) =>
        /\ pc = "failed"
        /\ loading = "none"
        /\ errorEl = "block"
        /\ chartsShown # "grid"
        /\ container = <<>>

\* C5: all the cards of the container carry the time domain
\* [earliest_commit, latest_commit] of the metadata and one common magnitude
\* domain, and were drawn in one mode, whatever the time span of their own
\* commits; every point sits where those common scales put it.
C5_CommonScales ==
    \A k \in DOMAIN container :
        LET card == container[k]
            xScale == [domain |-> <<globalData.metadata.earliest_commit,
                                    globalData.metadata.latest_commit>>,
                       range |-> <<MARGIN.left, CHART_WIDTH - MARGIN.right>>]
        IN  /\ card.svg.axes.x = xScale.domain
            /\ \A i \in DOMAIN card.svg.points :
                  card.svg.points[i].cx = ScaleApply(xScale, card.svg.points[i].datum.ts)
            /\ \A k2 \in DOMAIN container :
                  /\ container[k2].svg.axes.y = card.svg.axes.y
                  /\ container[k2].svg.axes.zeroLine = card.svg.axes.zeroLine
                  /\ container[k2].svg.mode = card.svg.mode

\* the time span of the commits of a stored code
OwnSpan(c) ==
    <<MinOver({c.commits[j].ts : j \in DOMAIN c.commits}),
      MaxOver({c.commits[j].ts : j \in DOMAIN c.commits})>>

C5_Witness ==
    /\ Len(container) = 2
    /\ OwnSpan(CodeOfCard(1)) # OwnSpan(CodeOfCard(2))
    /\ OwnSpan(CodeOfCard(1)) # container[1].svg.axes.x
    /\ container[1].svg.axes.x = container[2].svg.axes.x
    /\ toggles >= 1

\* C6: a card drawn in net mode binds, in stored order, one datum per stored
\* commit, equal to it in sha, ts, msg, add, del and url and with
\* net = add - del, and plots it at the single value net; a card drawn in
\* brut mode binds the stored commits themselves.
C6_NetIsAddMinusDel ==
    \A k \in DOMAIN container :
        LET card == container[k]
            stored == CodeOfCard(k).commits
            yScale == [domain |-> card.svg.axes.y,
                       range |-> <<CHART_HEIGHT - MARGIN.bottom, MARGIN.top>>]
        IN  /\ Len(card.svg.points) = Len(stored)
            /\ \A i \in DOMAIN stored :
                  LET d == card.svg.points[i].datum
                  IN  IF card.svg.mode = "net"
                      THEN /\ DOMAIN d = DOMAIN stored[i] \cup {"net"}
                           /\ \A f \in DOMAIN stored[i] : d[f] = stored[i][f]
                           /\ d.net = stored[i].add - stored[i].del
                           /\ card.svg.points[i].cy
                                = ScaleApply(yScale, stored[i].add - stored[i].del)
                           /\ card.svg.paths[1].d[i].y1
                                = ScaleApply(yScale, Max(0, stored[i].add - stored[i].del))
                           /\ card.svg.paths[2].d[i].y1
                                = ScaleApply(yScale, Min(0, stored[i].add - stored[i].del))
                      ELSE d = stored[i]

C6_Witness ==
    /\ displayMode = "net"
    /\ \E k \in DOMAIN container :
          /\ container[k].svg.mode = "net"
          /\ Len(container[k].svg.points) = 2
          /\ container[k].svg.points[1].datum.add = 3
          /\ container[k].svg.points[1].datum.del = 1
          /\ container[k].svg.points[1].datum.net = 2
          /\ container[k].svg.points[2].datum.net = -2

\* the orderings of a sequence
Orderings(seq) ==
    {[i \in DOMAIN seq |-> seq[f[i]]] :
        f \in {g \in [DOMAIN seq -> DOMAIN seq] : \A a, b \in DOMAIN seq : a # b => g[a] # g[b]}}

\* where a chart puts each commit: its point, and its vertex on each area
Placement(svg) ==
    {<<"point", svg.points[i].datum.sha, svg.points[i].cx, svg.points[i].cy>> :
        i \in DOMAIN svg.points}
    \cup {<<"vertex", n, svg.points[i].datum.sha, svg.paths[n].d[i].x, svg.paths[n].d[i].y1>> :
            n \in DOMAIN svg.paths, i \in DOMAIN svg.points}

\* C9: drawing a code with its commits array in any other order puts each
\* commit's point, and its vertex on each area, at the same coordinates as in
\* the card that is displayed.
C9_PositionIndependentOfIndex ==
    \A k \in DOMAIN container :
        LET code == CodeOfCard(k)
            scales == createScales(container[k].svg.mode, globalData.metadata)
        IN  \A perm \in Orderings(code.commits) :
                Placement(createChart(container[k].svg.mode,
                                      [code EXCEPT !.commits = perm],
                                      scales.xScale, scales.yScale).svg)
                  = Placement(container[k].svg)

C9_Witness ==
    \E k \in DOMAIN container :
        /\ Len(container[k].svg.points) = 2
        /\ container[k].svg.points[1].datum.ts > container[k].svg.points[2].datum.ts
        /\ container[k].svg.points[1].cx # container[k].svg.points[2].cx
        /\ container[k].svg.mode = "net"

\* the largest add or del among the commits of a stored code
OwnMaximum(c) ==
    MaxOver({c.commits[j].add : j \in DOMAIN c.commits}
                \cup {c.commits[j].del : j \in DOMAIN c.commits})

EventuallyEmpty(src) ==
    \/ src.tail = 0
    \/ \E p \in DOMAIN src.sizes : src.sizes[p] = 0

RECURSIVE ConcatPages(_, _)
ConcatPages(src, n) ==
    IF n = 0 THEN <<>> ELSE ConcatPages(src, n - 1) \o PageOf(src, n)

\* the pages asked for are 1, 2, 3, ..; none before the last was empty; what
\* is accumulated is the concatenation of the non-empty pages asked for; a
\* loop that returned stopped on an empty page
PagesInOrder(l) ==
    LET n == Len(requested[l])
    IN  /\ \A i \in 1..n : requested[l][i] = i
        /\ \A i \in 1..(n - 1) : PageOf(source[l], i) # <<>>
        /\ fpc[l] = "returned" =>
              /\ n >= 1
              /\ PageOf(source[l], n) = <<>>
              /\ all_items[l] = ConcatPages(source[l], n - 1)
        /\ fpc[l] = "loop" =>
              /\ page[l] = n + 1
              /\ all_items[l] = ConcatPages(source[l], n)

\* C7: each loop requests the pages 1, 2, 3, .. in order, stops at the first
\* empty page and returns the concatenation of the pages before it; a loop
\* whose source answers some request with an empty page returns, and the
\* number of entries of the source is never consulted.
C7_PaginationStopsAtFirstEmptyPage ==
    /\ [](\A l \in Loops : PagesInOrder(l))
    /\ \A l \in Loops : (EventuallyEmpty(source[l]) ~> fpc[l] = "returned")

C7_Witness ==
    \E l \in Loops :
        /\ fpc[l] = "returned"
        /\ requested[l] = <<1, 2, 3>>
        /\ Len(all_items[l]) = 3

C11_EmptyDatasetRejected ==
    (/\ server.kind = "json"
     /\ server.doc.hasMetadata
     /\ server.doc.hasCodes
     /\ pc \in {"done", "failed"}) =>
        /\ server.doc.codes = <<>> =>
              /\ pc = "failed"
              /\ errorEl = "block"
              /\ chartsShown # "grid"
        /\ (/\ Len(server.doc.codes) = 1
            /\ server.doc.codes[1].hasCommits
            /\ Len(server.doc.codes[1].commits) = 0) =>
              /\ pc = "done"
              /\ errorEl # "block"

\* the positions <<series index, commit index>> of all the CommitRecords
RecordPositions ==
    UNION {{<<i, j>> : j \in DOMAIN seriesList[i]} : i \in DOMAIN seriesList}

RECURSIVE SumAt(_, _)
SumAt(positions, field) ==
    IF positions = {} THEN 0
    ELSE LET p == CHOOSE q \in positions : TRUE
         IN  seriesList[p[1]][p[2]][field] + SumAt(positions \ {p}, field)

\* the positions of the records dated in the month that starts at start
InMonth(start) ==
    {p \in RecordPositions :
        /\ seriesList[p[1]][p[2]].timestamp[1] = start[1]
        /\ seriesList[p[1]][p[2]].timestamp[2] = start[2]}

\* C12: the buckets emitted are one per distinct (year, month) among the
\* commits of all the series, each starting on the first day of its month
\* and carrying the sums of additions and deletions of the commits of that
\* month whatever their series, in ascending order of bucketStart; no
\* commits gives no buckets.
C12_MonthlyBuckets ==
    apc = "emitted" =>
        /\ {buckets[n].bucketStart : n \in DOMAIN buckets}
             = {<<seriesList[p[1]][p[2]].timestamp[1],
                  seriesList[p[1]][p[2]].timestamp[2], 1>> : p \in RecordPositions}
        /\ \A a, b \in DOMAIN buckets :
              a < b =>
                 \/ buckets[a].bucketStart[1] < buckets[b].bucketStart[1]
                 \/ /\ buckets[a].bucketStart[1] = buckets[b].bucketStart[1]
                    /\ buckets[a].bucketStart[2] < buckets[b].bucketStart[2]
        /\ \A n \in DOMAIN buckets :
              /\ buckets[n].additions = SumAt(InMonth(buckets[n].bucketStart), "additions")
              /\ buckets[n].deletions = SumAt(InMonth(buckets[n].bucketStart), "deletions")
        /\ RecordPositions = {} => buckets = <<>>

C12_Witness ==
    /\ apc = "emitted"
    /\ Len(seriesList) = 2
    /\ \E j \in DOMAIN seriesList[1] : seriesList[1][j].timestamp = <<2020, 2, 1>>
    /\ \E j \in DOMAIN seriesList[1] : seriesList[1][j].timestamp = <<2020, 1, 15>>
    /\ \E j \in DOMAIN seriesList[2] : seriesList[2][j].timestamp = <<2020, 1, 20>>
    /\ buckets = <<[bucketStart |-> <<2020, 1, 1>>, additions |-> 7, deletions |-> 1],
                   [bucketStart |-> <<2020, 2, 1>>, additions |-> 0, deletions |-> 4]>>

\* C13: whatever the order of the steps of init and the calls of toggleMode,
\* every card in the container was drawn in the current displayMode; in net
\* mode every commit bound to a point carries net = add - del; the tooltip of
\* the hovered point shows net in net mode and add and del in brut mode.
C13_CardsDrawnInCurrentMode ==
    \A k \in DOMAIN container :
        /\ container[k].svg.mode = displayMode
        /\ \A i \in DOMAIN container[k].svg.points :
              LET p == container[k].svg.points[i]
                  d == p.datum
              IN  /\ displayMode = "net" =>
                        /\ "net" \in DOMAIN d
                        /\ d.net = d.add - d.del
                  /\ p.r = 4 =>
                        /\ tooltip.display = "block"
                        /\ tooltip.title = d.msg
                        /\ tooltip.stats.kind = displayMode
                        /\ displayMode = "net" =>
                              tooltip.stats.net = [defined |-> TRUE, value |-> d.add - d.del]
                        /\ displayMode = "brut" =>
                              /\ tooltip.stats.add = d.add
                              /\ tooltip.stats.del = d.del

C13_Witness ==
    /\ toggles = 1
    /\ displayMode = "net"
    /\ pc = "done"
    /\ \E k \in DOMAIN container : \E i \in DOMAIN container[k].svg.points :
          /\ container[k].svg.points[i].r = 4
          /\ container[k].svg.points[i].datum.add = 1
          /\ container[k].svg.points[i].datum.del = 3
    /\ tooltip.stats.kind = "net"
    /\ tooltip.stats.net.value = -2

\* C14: once the error element is shown, a call of toggleMode draws no card:
\* after it the container holds no card of the mode it switched to.
C14_NoRenderAfterError ==
    [][(errorEl = "block" /\ toggles' = toggles + 1)
          => \A k \in DOMAIN container' : container'[k].svg.mode # displayMode']_vars

\* the metadata maxima bound the commits of the loaded document
MaximaBoundCommits ==
    \A c \in Range(globalData.codes) :
        \A j \in DOMAIN c.commits :
            /\ 0 <= c.commits[j].add
            /\ c.commits[j].add <= globalData.metadata.max_additions
            /\ 0 <= c.commits[j].del
            /\ c.commits[j].del <= globalData.metadata.max_deletions

\* a <= p / q <= b for the rational <<p, q>>, q > 0
Within(a, r, b) == a * r[2] <= r[1] /\ r[1] <= b * r[2]

\* C15: when the metadata maxima bound every commit, every value plotted lies
\* inside the magnitude domain of its chart, add and -del in brut mode and
\* net in net mode, and every point and area vertex lies between the bottom
\* and the top of the plot.
C15_ValuesInsideDomain ==
    (Loaded(globalData) /\ MaximaBoundCommits) =>
        \A k \in DOMAIN container :
            LET svg == container[k].svg
                M == Max(globalData.metadata.max_additions,
                         globalData.metadata.max_deletions)
            IN  /\ svg.axes.y = <<-M, M>>
                /\ \A i \in DOMAIN svg.points :
                      LET d == svg.points[i].datum
                      IN  /\ svg.mode = "brut" => (d.add <= M /\ -M <= -d.del)
                          /\ svg.mode = "net" => (-M <= d.net /\ d.net <= M)
                          /\ Within(MARGIN.top, svg.points[i].cy,
                                    CHART_HEIGHT - MARGIN.bottom)
                          /\ \A n \in DOMAIN svg.paths :
                                /\ Within(MARGIN.top, svg.paths[n].d[i].y1,
                                          CHART_HEIGHT - MARGIN.bottom)
                                /\ Within(MARGIN.top, svg.paths[n].d[i].y0,
                                          CHART_HEIGHT - MARGIN.bottom)

C15_Witness ==
    /\ Loaded(globalData)
    /\ MaximaBoundCommits
    /\ globalData.metadata.max_additions = 3
    /\ globalData.metadata.max_deletions = 3
    /\ displayMode = "net"
    /\ \E k \in DOMAIN container : \E i \in DOMAIN container[k].svg.points :
          /\ container[k].svg.points[i].datum.net = -2
          /\ container[k].svg.points[i].datum.del = 3

\* the largest |add - del| over the commits of the loaded document
MaxNetBalance ==
    MaxOver(UNION {{Max(c.commits[j].add - c.commits[j].del,
                        c.commits[j].del - c.commits[j].add) : j \in DOMAIN c.commits} :
                      c \in Range(globalData.codes)})

\* C16: in net mode the magnitude domain of every chart is
\* [-maxNet, +maxNet], maxNet the largest |add - del| over the commits of
\* the dataset whose metadata maxima are those of its commits.
C16_NetDomainFromMaxNet ==
    \A k \in DOMAIN container :
        (/\ container[k].svg.mode = "net"
         /\ MaximaBoundCommits
         /\ \E c \in Range(globalData.codes) : \E j \in DOMAIN c.commits :
               c.commits[j].add = globalData.metadata.max_additions
         /\ \E c \in Range(globalData.codes) : \E j \in DOMAIN c.commits :
               c.commits[j].del = globalData.metadata.max_deletions)
          => container[k].svg.axes.y = <<-MaxNetBalance, MaxNetBalance>>

\* a card with its points as addInteractivePoints creates them (no hover)
AsDrawn(card) ==
    [card EXCEPT !.svg.points =
        [i \in DOMAIN card.svg.points |->
            [card.svg.points[i] EXCEPT !.r = 3, !.fill = "transparent"]]]

\* C17: whatever renders and toggles came before, the container holds what
\* one render of the loaded data in the current mode draws on an empty
\* container: no card of an earlier render is left and no code has two
\* cards; when that render runs to its end it is exactly one card per code
\* with at least one commit.
C17_RenderReplacesContainer ==
    /\ \A k1, k2 \in DOMAIN container :
          container[k1].slug = container[k2].slug => k1 = k2
    /\ Loaded(globalData) =>
          LET once == renderAllCharts(displayMode, globalData)
          IN  /\ [k \in DOMAIN container |-> AsDrawn(container[k])] = once.container
              /\ ~once.threw =>
                    /\ Len(container)
                         = Cardinality({i \in DOMAIN globalData.codes :
                                           Len(globalData.codes[i].commits) > 0})
                    /\ \A i \in DOMAIN globalData.codes :
                          Len(globalData.codes[i].commits) > 0 =>
                             \E k \in DOMAIN container :
                                container[k].slug = globalData.codes[i].slug

C17_Witness ==
    /\ toggles = 2
    /\ pc = "done"
    /\ Len(globalData.codes) = 2
    /\ Len(container) = 2
    /\ container[1].slug # container[2].slug

\* C18: displayMode is 'brut' or 'net'; it is 'brut' after an even number of
\* toggleMode calls and 'net' after an odd number, before, during and after
\* the load and whether the load failed or not; no other step changes it.
C18_ModeIsParityOfToggles ==
    /\ displayMode \in Modes
    /\ displayMode = IF toggles % 2 = 0 THEN "brut" ELSE "net"

C18_Witness ==
    /\ toggles = 2
    /\ displayMode = "brut"
    /\ pc = "json"
    /\ ~Loaded(globalData)

\* C19: once toggleMode has been called, the button names the mode a click
\* would switch to and the legend names the quantities of the current mode.
C19_ControlsAgreeWithMode ==
    toggles >= 1 =>
        /\ button.text = "Mode Net" <=> displayMode = "brut"
        /\ button.text = "Mode Brut" <=> displayMode = "net"
        /\ legend = [add |-> "Additions", del |-> "Deletions"] <=> displayMode = "brut"
        /\ legend = [add |-> "Solde positif", del |-> "Solde negatif"]
             <=> displayMode = "net"

C19_Witness ==
    /\ toggles = 2
    /\ displayMode = "brut"
    /\ button.text = "Mode Net"
    /\ legend.del = "Deletions"
    /\ pc = "done"

\* the slugs of the codes that have commits, up to the first entry that
\* lacks its commits, in the order of the list
RECURSIVE SlugsToDraw(_, _)
SlugsToDraw(codes, i) ==
    IF i > Len(codes) THEN <<>>
    ELSE IF ~codes[i].hasCommits THEN <<>>
    ELSE IF Len(codes[i].commits) = 0 THEN SlugsToDraw(codes, i + 1)
    ELSE <<codes[i].slug>> \o SlugsToDraw(codes, i + 1)

\* C20: the cards of the container are, in order, those of the codes of the
\* delivered document that have commits, in the order the document lists
\* them, in every render and in both modes; the order of data.codes is the
\* delivered one.
C20_CardsInStoredOrder ==
    (Loaded(globalData) /\ globalData.hasMetadata /\ globalData.hasCodes) =>
        /\ [k \in DOMAIN container |-> container[k].slug]
             = SlugsToDraw(server.doc.codes, 1)
        /\ [i \in DOMAIN globalData.codes |-> globalData.codes[i].slug]
             = [i \in DOMAIN server.doc.codes |-> server.doc.codes[i].slug]

C20_Witness ==
    /\ pc = "done"
    /\ toggles = 1
    /\ displayMode = "net"
    /\ Len(globalData.codes) = 2
    /\ [k \in DOMAIN container |-> container[k].slug] = <<1, 2>>
    /\ Len(globalData.codes[1].commits) < Len(globalData.codes[2].commits)

\* the rational r is the pixel height of the value v on a chart whose
\* magnitude domain is [-M, M]: from the bottom of the plot at -M to its top
\* at M, and the middle of the plot for every value when M = 0
AtHeightOf(r, v, M) ==
    LET bottom == CHART_HEIGHT - MARGIN.bottom
        top == MARGIN.top
    IN  IF M = 0
        THEN 2 * r[1] = (bottom + top) * r[2]
        ELSE r[1] * (2 * M) = r[2] * (bottom * (2 * M) - (v + M) * (bottom - top))

\* C21: in brut mode the point of a commit is at the height of +add when
\* add > del and of -del otherwise, a tie included; in net mode it is at the
\* height of net = add - del.
C21_PointAtLargerMagnitude ==
    \A k \in DOMAIN container :
        \A i \in DOMAIN container[k].svg.points :
            LET p == container[k].svg.points[i]
                d == p.datum
                M == container[k].svg.axes.y[2]
            IN  /\ p.cy[2] > 0
                /\ (container[k].svg.mode = "brut" /\ d.add > d.del)
                      => AtHeightOf(p.cy, d.add, M)
                /\ (container[k].svg.mode = "brut" /\ d.add <= d.del)
                      => AtHeightOf(p.cy, -d.del, M)
                /\ container[k].svg.mode = "net"
                      => AtHeightOf(p.cy, d.add - d.del, M)

C21_Witness ==
    \E k \in DOMAIN container :
        \E i \in DOMAIN container[k].svg.points :
            LET p == container[k].svg.points[i]
            IN  /\ container[k].svg.mode = "brut"
                /\ container[k].svg.axes.y = <<-3, 3>>
                /\ p.datum.add = 2
                /\ p.datum.del = 2
                /\ AtHeightOf(p.cy, -2, 3)
                /\ ~AtHeightOf(p.cy, 2, 3)

====
